---- MODULE Spec2Model ----
(***************************************************************************)
(* Review orchestration of the AI code review assistant:                   *)
(* ReviewService.create_review / _run_analysis (review_service.py), the     *)
(* diff extractor and the workspace helpers (analysis/base.py).             *)
(*                                                                         *)
(* One review run is modelled.  The ORM object `review` (what the code      *)
(* assigns to) and the persisted row `row` (what a committed transaction    *)
(* left in the database) are separate pieces of state; db.commit() moves    *)
(* the first into the second, or raises.                                    *)
(*                                                                         *)
(* Single functions have specifications of their own, which draw the       *)
(* arguments in the initial state and apply the function: SpecScore        *)
(* (_calculate_score), SpecAnalyze (analyze of the security, quality and    *)
(* complexity analyzers), SpecTruncate (_truncate_files), SpecParse         *)
(* (_parse_ai_response) and SpecAI (AIReviewer.analyze).                    *)
(***************************************************************************)
EXTENDS Integers, Sequences, FiniteSets, TLC

(***************************************************************************)
(* Bounds of the model.                                                     *)
(***************************************************************************)
\* Total number of finding drafts the three analyzers return in one run.
MaxFindings == 3
\* Largest severity count fed to _calculate_score in SpecScore.
MaxCount == 6
\* Largest number of findings one tool call reports in SpecAnalyze.
MaxToolFindings == 1
\* Largest number of files handed to _truncate_files in SpecTruncate.
MaxFiles == 3
\* Largest number of entries of the "findings" list of a model response.
MaxItems == 2
\* Largest number of lines of a diff in SpecExtract.
MaxLines == 4
\* Largest number of files handed to write_files_to_workspace in SpecWrite.
MaxPaths == 3
\* Number of concurrent _run_analysis tasks in SpecRuns.
MaxRuns == 2
\* Number of webhook requests in progress at once in SpecWebhook.
MaxHandlers == 2
\* Number of webhook events received in SpecWebhook.
MaxEvents == 3

(***************************************************************************)
(* Values.                                                                  *)
(***************************************************************************)
\* overall_score is a nullable Integer column; NullScore stands for NULL.
NullScore == -1

\* Review.summary is a nullable Text column.  A summary is kept as its
\* literal lines plus the numbers formatted into them.
NoSummary == [kind |-> "null", lines |-> <<>>, total |-> 0, critical |-> 0,
              warning |-> 0, info |-> 0, categories |-> <<>>, closing |-> ""]

\* The Review ORM object before create_review has built it.
NoReview == [status |-> "absent", overall_score |-> NullScore,
             summary |-> NoSummary, critical_count |-> 0, warning_count |-> 0,
             info_count |-> 0, started_at |-> FALSE, completed_at |-> FALSE]

\* Launch order of the analyzers in asyncio.gather.
AnalyzerOrder == <<"security", "quality", "complexity">>
Analyzers == {AnalyzerOrder[i] : i \in 1..Len(AnalyzerOrder)}

\* tool_source and category each analyzer writes into its finding drafts.
ToolOf(a) == CASE a = "security" -> "bandit"
               [] a = "quality" -> "pylint"
               [] OTHER -> "radon"
CategoryOf(a) == a

\* Severities a finding draft can carry: the three known ones and one that is
\* not in the vocabulary.
DraftSeverities == {"critical", "warning", "info", "high"}

Draft(a, s) == [category |-> CategoryOf(a), severity |-> s, tool_source |-> ToolOf(a)]

RECURSIVE SeqsUpTo(_, _)
SeqsUpTo(S, n) ==
    IF n = 0 THEN {<<>>}
    ELSE LET shorter == SeqsUpTo(S, n - 1)
         IN  shorter \cup {Append(q, x) : q \in {p \in shorter : Len(p) = n - 1}, x \in S}

DraftLists(a, n) == SeqsUpTo({Draft(a, s) : s \in DraftSeverities}, n)

\* What awaiting one analyzer yields: an AnalyzerResult, or a raised exception
\* that gather(return_exceptions=True) hands back as a value.
Pending == [kind |-> "pending", success |-> FALSE, findings |-> <<>>]
Raised == [kind |-> "exception", success |-> FALSE, findings |-> <<>>]
AnalyzerResult(ok, fs) == [kind |-> "result", success |-> ok, findings |-> fs]

(***************************************************************************)
(* The diff and extract_python_files_from_diff.                             *)
(***************************************************************************)
\* A diff is a sequence of lines; a line is one of
\*   git   "diff --git a/<path> b/<path>" ("diff --git" alone when the
\*         path is ShortHeader)
\*   plus3 "+++ b/<path>"      add  "+<text>"
\*   del   "-<text>"           ctx  " <text>"
GitLine(p) == [k |-> "git", path |-> p, text |-> ""]
AddLine(t) == [k |-> "add", path |-> "", text |-> t]
DelLine(t) == [k |-> "del", path |-> "", text |-> t]
CtxLine(t) == [k |-> "ctx", path |-> "", text |-> t]
Plus3Line(p) == [k |-> "plus3", path |-> p, text |-> ""]

\* The path of a header line that has no paths.
ShortHeader == "<none>"

\* path.split(" ")
Words(p) == IF p = "my file.py" THEN <<"my", "file.py">> ELSE <<p>>

\* A piece of line.split(" "): `word`, behind the two characters `prefix`
\* when the piece starts a path.
Part(prefix, word) == [prefix |-> prefix, word |-> word]

PathParts(prefix, p) ==
    [i \in 1..Len(Words(p)) |-> Part(IF i = 1 THEN prefix ELSE "", Words(p)[i])]

\* line.split(" ") of a header line (line 108)
HeaderParts(line) ==
    << Part("", "diff"), Part("", "--git") >>
        \o (IF line.path = ShortHeader THEN <<>>
            ELSE PathParts("a/", line.path) \o PathParts("b/", line.path))

\* word[2:] on the words of the model.
DropTwo(word) ==
    CASE word = "file.py" -> "le.py"
      [] word = "my" -> ""
      [] OTHER -> "?"

\* parts[3][2:] (line 110); the sequence is 1-based here.
Filepath(parts) ==
    IF parts[4].prefix # "" THEN parts[4].word ELSE DropTwo(parts[4].word)

\* filepath.endswith(".py")
IsPy(p) == p \in {"app.py", "util.py", "le.py"}

\* text.startswith("++"): with the marker, the line starts with "+++".
StartsPlusPlus(t) == t = "++x"

\* line.startswith("+") and not line.startswith("+++") (line 116)
IsAddedLine(line) == line.k = "add" /\ ~StartsPlusPlus(line.text)

NoFile == ""

\* files[current_file] = "\n".join(current_content), when both are truthy.
Flush(files, current_file, current_content) ==
    IF current_file # NoFile /\ current_content # <<>>
    THEN [p \in (DOMAIN files) \cup {current_file} |->
             IF p = current_file THEN current_content ELSE files[p]]
    ELSE files

RECURSIVE ExtractFrom(_, _, _, _, _)
ExtractFrom(diff, i, files, current_file, current_content) ==
    IF i > Len(diff) THEN Flush(files, current_file, current_content)
    ELSE LET line == diff[i] IN
         IF line.k = "git"
         THEN ExtractFrom(diff, i + 1,
                          Flush(files, current_file, current_content),
                          IF Len(HeaderParts(line)) >= 4
                          THEN (IF IsPy(Filepath(HeaderParts(line)))
                                THEN Filepath(HeaderParts(line)) ELSE NoFile)
                          ELSE current_file,
                          IF current_file # NoFile /\ current_content # <<>>
                          THEN <<>> ELSE current_content)
         ELSE IF current_file # NoFile /\ IsAddedLine(line)
         THEN ExtractFrom(diff, i + 1, files, current_file,
                          Append(current_content, line.text))
         ELSE ExtractFrom(diff, i + 1, files, current_file, current_content)

EmptyFiles == [p \in {} |-> <<>>]

extract_python_files_from_diff(diff) == ExtractFrom(diff, 1, EmptyFiles, NoFile, <<>>)

\* The diffs GitHub can answer with in this model.
SampleDiffs ==
    { <<>>,
      << GitLine("notes.txt"), Plus3Line("notes.txt"), AddLine("t1") >>,
      << GitLine("app.py"), Plus3Line("app.py"), CtxLine("c1"), DelLine("d1") >>,
      << GitLine("app.py"), Plus3Line("app.py"), AddLine("l1"), DelLine("d1"),
         AddLine("l2"), AddLine("l3"),
         GitLine("notes.txt"), Plus3Line("notes.txt"), AddLine("t1") >> }

(***************************************************************************)
(* _calculate_score and _generate_summary.                                  *)
(***************************************************************************)
Max(a, b) == IF a >= b THEN a ELSE b
Min(a, b) == IF a <= b THEN a ELSE b

\* The score without the clamp at 0.
ScoreNoLowerClamp(critical_count, warning_count, info_count) ==
    Min(100, 100 - critical_count * 20 - warning_count * 10 - info_count * 2)

_calculate_score(critical_count, warning_count, info_count) ==
    LET s0 == 100
        s1 == s0 - critical_count * 20
        s2 == s1 - warning_count * 10
        s3 == s2 - info_count * 2
    IN  Max(0, Min(100, s3))

\* categories[category] = categories.get(category, 0) + 1, in insertion order.
RECURSIVE CountCategories(_, _, _)
CountCategories(findings, i, acc) ==
    IF i > Len(findings) THEN acc
    ELSE LET c == findings[i].category
             hit == {j \in 1..Len(acc) : acc[j].category = c}
         IN  IF hit = {}
             THEN CountCategories(findings, i + 1,
                                  Append(acc, [category |-> c, count |-> 1]))
             ELSE CountCategories(findings, i + 1,
                                  [j \in 1..Len(acc) |->
                                      IF j \in hit
                                      THEN [acc[j] EXCEPT !.count = @ + 1]
                                      ELSE acc[j]])

\* sorted(categories.items(), key=count, reverse=True): stable, descending.
RECURSIVE InsertByCount(_, _)
InsertByCount(sorted, e) ==
    IF sorted = <<>> THEN <<e>>
    ELSE IF Head(sorted).count >= e.count
         THEN <<Head(sorted)>> \o InsertByCount(Tail(sorted), e)
         ELSE <<e>> \o sorted

RECURSIVE SortByCount(_, _, _)
SortByCount(items, i, acc) ==
    IF i > Len(items) THEN acc
    ELSE SortByCount(items, i + 1, InsertByCount(acc, items[i]))

\* The summary with the warnings test ahead of the critical test.
SummaryWarningsFirst(critical_count, warning_count, info_count, findings) ==
    LET total == critical_count + warning_count + info_count IN
    IF total = 0
    THEN [NoSummary EXCEPT !.kind = "text",
             !.lines = <<"Great work! No issues found in this pull request.">>]
    ELSE [kind |-> "text",
          lines |-> <<"Found {total} issue(s) in this pull request:",
                      "- {critical_count} critical",
                      "- {warning_count} warnings",
                      "- {info_count} info">>,
          total |-> total,
          critical |-> critical_count,
          warning |-> warning_count,
          info |-> info_count,
          categories |-> SortByCount(CountCategories(findings, 1, <<>>), 1, <<>>),
          closing |-> IF warning_count > 5
                      THEN "Several warnings found. Consider addressing them."
                      ELSE IF critical_count > 0
                      THEN "Critical issues found. Please address before merging."
                      ELSE "Code looks good overall. Minor improvements suggested."]

\* review_service.py 212-268
_generate_summary(critical_count, warning_count, info_count, findings) ==
    LET total == critical_count + warning_count + info_count IN
    IF total = 0
    THEN [NoSummary EXCEPT !.kind = "text",
             !.lines = <<"Great work! No issues found in this pull request.">>]
    ELSE [kind |-> "text",
          lines |-> <<"Found {total} issue(s) in this pull request:",
                      "- {critical_count} critical",
                      "- {warning_count} warnings",
                      "- {info_count} info">>,
          total |-> total,
          critical |-> critical_count,
          warning |-> warning_count,
          info |-> info_count,
          categories |-> SortByCount(CountCategories(findings, 1, <<>>), 1, <<>>),
          closing |-> IF critical_count > 0
                      THEN "Critical issues found. Please address before merging."
                      ELSE IF warning_count > 5
                      THEN "Several warnings found. Consider addressing them."
                      ELSE "Code looks good overall. Minor improvements suggested."]

NoFilesSummary ==
    [NoSummary EXCEPT !.kind = "text",
        !.lines = <<"No Python files found in this pull request.">>]

\* f"Review failed: {str(e)}"
FailureSummary(e) ==
    [NoSummary EXCEPT !.kind = "text", !.lines = <<"Review failed: ", e>>]

(***************************************************************************)
(* State.                                                                   *)
(***************************************************************************)
VARIABLES
    pc,           \* position of the run in create_review / _run_analysis
    review,       \* the Review ORM object the code assigns to
    row,          \* the persisted reviews row
    sessionNew,   \* Finding objects db.add()ed and not yet flushed
    findingRows,  \* the persisted findings rows of the review
    sessionOk,    \* FALSE once a COMMIT failed and left the session unusable
    diff,         \* local `diff`
    python_files, \* local `python_files`
    workspace,    \* local `workspace`: "None" or the directory
    wsExists,     \* the directory of this run exists on disk
    wsFiles,      \* paths written under it
    results,      \* per analyzer, what gather has collected for it
    running,      \* the analyzer inside its (blocking) tool call, or "none"
    all_findings, \* local `all_findings`
    exc,          \* text of the exception being handled, "" if none
    fault,        \* the step of the try block that raised, "none" if none
    escaped,      \* an exception left _run_analysis (raised by the handler)
    returned,     \* status of the Review create_review returned, "none" before
    scoreIn,      \* arguments of a _calculate_score call (SpecScore)
    scoreOut,     \* its result (SpecScore)
    anTool,       \* the analyzer whose analyze() is called (SpecAnalyze)
    anCalls,      \* what each of its subprocess.run calls does (SpecAnalyze)
    anResult,     \* the AnalyzerResult it returned (SpecAnalyze)
    trFiles,      \* argument `files` of _truncate_files (SpecTruncate)
    trMax,        \* argument `max_chars` of _truncate_files (SpecTruncate)
    trOut,        \* the dictionary it returned (SpecTruncate)
    trPc,         \* "idle", "call" or "returned" (SpecTruncate)
    prResponse,   \* argument `response` of _parse_ai_response (SpecParse)
    prOut,        \* the list it returned (SpecParse)
    prPc,         \* "idle", "call" or "returned" (SpecParse)
    aiAvailable,  \* claude_service.is_available() (SpecAI)
    aiFiles,      \* argument `files` of AIReviewer.analyze (SpecAI)
    aiPc,         \* position inside AIReviewer.analyze (SpecAI)
    aiCalls,      \* number of claude_service.review_code calls made (SpecAI)
    aiResult,     \* the AnalyzerResult it returned (SpecAI)
    exDiff,       \* argument of extract_python_files_from_diff (SpecExtract)
    exOut,        \* the dictionary it returned (SpecExtract)
    exPc,         \* "idle", "call" or "returned" (SpecExtract)
    smIn,         \* arguments of a _generate_summary call (SpecSummary)
    smOut,        \* its result (SpecSummary)
    wrTodo,       \* items of `files` write_files_to_workspace has not written yet (SpecWrite)
    wrCreated,    \* locations it has created on disk (SpecWrite)
    wrPc,         \* "idle", "loop" or "returned" (SpecWrite)
    rnPc,         \* position of each concurrent _run_analysis task (SpecRuns)
    rnWorkspace,  \* its local variable `workspace` (SpecRuns)
    rnTodo,       \* number of its files not yet written to the workspace (SpecRuns)
    rnRunning,    \* the analyzer of the run that is inside analyze(), or "none" (SpecRuns)
    rnDone,       \* the analyzers of the run that have returned (SpecRuns)
    fsDirs,       \* the code_review_* directories of the temp directory (SpecRuns)
    fsLog,        \* accesses made to those directories (SpecRuns)
    whPc,         \* position of each webhook handler (SpecWebhook)
    webhook_data, \* the payload each handler is processing (SpecWebhook)
    whFn,         \* the PullRequestService method each handler is in (SpecWebhook)
    pull_request, \* its local `pull_request`: 0 for None, -1 for a new object, else the row found (SpecWebhook)
    whResult,     \* what the method returned or raised (SpecWebhook)
    pull_requests,\* the rows of table pull_requests (SpecWebhook)
    whCount       \* number of webhook events received so far (SpecWebhook)

vars == << pc, review, row, sessionNew, findingRows, sessionOk, diff,
           python_files, workspace, wsExists, wsFiles, results, running,
           all_findings, exc, fault, escaped, returned, scoreIn, scoreOut,
           anTool, anCalls, anResult, trFiles, trMax, trOut, trPc,
           prResponse, prOut, prPc, aiAvailable, aiFiles, aiPc, aiCalls,
           aiResult,
           exDiff, exOut, exPc,
           smIn, smOut,
           wrTodo, wrCreated, wrPc,
           rnPc, rnWorkspace, rnTodo, rnRunning, rnDone, fsDirs, fsLog,
           whPc, webhook_data, whFn, pull_request, whResult, pull_requests, whCount >>

dbVars == << review, row, sessionNew, findingRows, sessionOk >>
wsVars == << workspace, wsExists, wsFiles >>
inputVars == << diff, python_files >>
analyzerVars == << results, running, all_findings >>
scoreVars == << scoreIn, scoreOut >>
\* The variables of the specifications of single functions.
analyzeVars == << anTool, anCalls, anResult >>
truncVars == << trFiles, trMax, trOut, trPc >>
parseVars == << prResponse, prOut, prPc >>
aiVars == << aiAvailable, aiFiles, aiPc, aiCalls, aiResult >>
extractVars == << exDiff, exOut, exPc >>
summaryVars == << smIn, smOut >>
writeVars == << wrTodo, wrCreated, wrPc >>
runsVars == << rnPc, rnWorkspace, rnTodo, rnRunning, rnDone, fsDirs, fsLog >>
webhookVars == << whPc, webhook_data, whFn, pull_request, whResult, pull_requests, whCount >>
unitVars == << scoreVars, analyzeVars, truncVars, parseVars, aiVars,
              extractVars,
              summaryVars,
              writeVars,
              runsVars,
              webhookVars >>

InitRun ==
    /\ pc = "idle"
    /\ review = NoReview
    /\ row = NoReview
    /\ sessionNew = <<>>
    /\ findingRows = <<>>
    /\ sessionOk = TRUE
    /\ diff = <<>>
    /\ python_files = EmptyFiles
    /\ workspace = "None"
    /\ wsExists = FALSE
    /\ wsFiles = {}
    /\ results = [a \in Analyzers |-> Pending]
    /\ running = "none"
    /\ all_findings = <<>>
    /\ exc = ""
    /\ fault = "none"
    /\ escaped = FALSE
    /\ returned = "none"

\* No call of _calculate_score is under study.
ScoreIdle ==
    /\ scoreIn = <<0, 0, 0>>
    /\ scoreOut = NullScore

\* No call of an analyzer's analyze() is under study.
NoResult == [tool |-> "none", findings |-> <<>>, success |-> FALSE, error |-> ""]

AnalyzeIdle ==
    /\ anTool = "none"
    /\ anCalls = <<>>
    /\ anResult = NoResult

\* No call of _truncate_files is under study.
TruncateIdle ==
    /\ trFiles = <<>>
    /\ trMax = 0
    /\ trOut = <<>>
    /\ trPc = "idle"

\* The response with nothing in it.
NoResponse == [wrap |-> "none", kind |-> "invalid", findings |-> "absent",
               items |-> <<>>, length |-> 0]

\* No call of _parse_ai_response is under study.
ParseIdle ==
    /\ prResponse = NoResponse
    /\ prOut = <<>>
    /\ prPc = "idle"

\* No call of AIReviewer.analyze is under study.
AIIdle ==
    /\ aiAvailable = FALSE
    /\ aiFiles = <<>>
    /\ aiPc = "idle"
    /\ aiCalls = 0
    /\ aiResult = NoResult

\* No call of extract_python_files_from_diff is under study.
ExtractIdle ==
    /\ exDiff = <<>>
    /\ exOut = EmptyFiles
    /\ exPc = "idle"

\* No call of _generate_summary is under study.
SummaryIdle ==
    /\ smIn = <<0, 0, 0, <<>> >>
    /\ smOut = NoSummary

\* No call of write_files_to_workspace is under study.
WriteIdle ==
    /\ wrTodo = <<>>
    /\ wrCreated = {}
    /\ wrPc = "idle"

\* No concurrent runs are under study.
RunsIdle ==
    /\ rnPc = <<>>
    /\ rnWorkspace = <<>>
    /\ rnTodo = <<>>
    /\ rnRunning = <<>>
    /\ rnDone = <<>>
    /\ fsDirs = <<>>
    /\ fsLog = {}

\* No webhook event is under study.
WebhookIdle ==
    /\ whPc = <<>>
    /\ webhook_data = <<>>
    /\ whFn = <<>>
    /\ pull_request = <<>>
    /\ whResult = <<>>
    /\ pull_requests = <<>>
    /\ whCount = 0

Init ==
    /\ InitRun
    /\ WebhookIdle
    /\ RunsIdle
    /\ WriteIdle
    /\ SummaryIdle
    /\ ExtractIdle
    /\ ScoreIdle
    /\ AnalyzeIdle
    /\ TruncateIdle
    /\ ParseIdle
    /\ AIIdle

(***************************************************************************)
(* db.commit().  A commit flushes the session (the UPDATE of the changed    *)
(* Review, the INSERT of every added Finding) and commits.  It can raise    *)
(* in the flush, and then the session has rolled the transaction back:      *)
(* unflushed changes of `review` are gone (the object reads as the row) and *)
(* the added Finding objects are expunged; or it can raise in COMMIT, and   *)
(* then the objects keep their values and the session stays in the failed   *)
(* transaction, so that every later commit raises as well.                  *)
(***************************************************************************)
CommitOutcomes == IF sessionOk THEN {"ok", "flush_error", "commit_error"}
                  ELSE {"commit_error"}

FindingOf(finding_data) ==
    [category |-> finding_data.category,
     severity |-> finding_data.severity,
     tool_source |-> finding_data.tool_source]

CommitEffect(outcome) ==
    CASE outcome = "ok" ->
            /\ row' = review
            /\ findingRows' = findingRows \o sessionNew
            /\ sessionNew' = <<>>
            /\ UNCHANGED << review, sessionOk >>
      [] outcome = "flush_error" ->
            /\ review' = row
            /\ sessionNew' = <<>>
            /\ UNCHANGED << row, findingRows, sessionOk >>
      [] OTHER ->
            /\ sessionOk' = FALSE
            /\ UNCHANGED << review, row, sessionNew, findingRows >>

CommitErrorText(outcome) ==
    IF outcome = "flush_error" THEN "OperationalError in flush"
    ELSE "OperationalError in COMMIT"

(***************************************************************************)
(* create_review.                                                           *)
(***************************************************************************)
NewReview == [status |-> "pending", overall_score |-> NullScore,
              summary |-> NoSummary, critical_count |-> 0, warning_count |-> 0,
              info_count |-> 0, started_at |-> FALSE, completed_at |-> FALSE]

\* create_review awaiting the coroutine of _run_analysis.
AwaitsTaskAlways == TRUE

\* Line 55: asyncio.create_task(...) wraps the coroutine in a task and comes
\* back at once; create_review does not await it.
AwaitsTask == FALSE

\* review_service.py 43-58: the row is committed, the task is scheduled and
\* `return review` follows with no suspension point in between.
CreateReview ==
    /\ pc = "idle"
    /\ review' = NewReview
    /\ row' = NewReview
    /\ pc' = "scheduled"
    /\ returned' = IF AwaitsTask THEN returned ELSE NewReview.status
    /\ UNCHANGED << sessionNew, findingRows, sessionOk, inputVars, wsVars,
                    analyzerVars, exc, fault, escaped, unitVars >>

\* review_service.py 43-52: db.commit() raises; the caller gets the
\* exception, no row exists and no task is created.
CreateReviewFails ==
    /\ pc = "idle"
    /\ review' = NewReview
    /\ pc' = "create_failed"
    /\ UNCHANGED << row, sessionNew, findingRows, sessionOk, inputVars, wsVars,
                    analyzerVars, exc, fault, escaped, returned, unitVars >>

(***************************************************************************)
(* _run_analysis: the try block.                                            *)
(***************************************************************************)
\* review_service.py 72-77: the task starts; the commit of line 78 is next.
Begin ==
    /\ pc = "scheduled"
    /\ workspace' = "None"
    /\ review' = [review EXCEPT !.status = "in_progress", !.started_at = TRUE]
    /\ pc' = "commit_start"
    /\ UNCHANGED << row, sessionNew, findingRows, sessionOk, inputVars,
                    wsExists, wsFiles, analyzerVars, exc, fault, escaped,
                    returned, unitVars >>

\* The db.commit() calls of the try block (lines 78, 97, 169) and of the
\* except block (line 176).
CommitSites == {"commit_start", "commit_nofiles", "commit_completed",
                "commit_failed"}

AfterCommit(site) == IF site = "commit_start" THEN "fetch" ELSE "finally"

Commit(site) ==
    /\ pc = site
    /\ \E outcome \in CommitOutcomes :
          /\ CommitEffect(outcome)
          /\ IF outcome = "ok"
             THEN /\ pc' = AfterCommit(site)
                  /\ UNCHANGED << exc, fault, escaped >>
             ELSE IF site = "commit_failed"
             THEN \* raised inside the except block: it leaves the coroutine
                  /\ pc' = "finally"
                  /\ escaped' = TRUE
                  /\ exc' = CommitErrorText(outcome)
                  /\ UNCHANGED fault
             ELSE /\ pc' = "except"
                  /\ exc' = CommitErrorText(outcome)
                  /\ fault' = site
                  /\ UNCHANGED escaped
    /\ UNCHANGED << inputVars, wsVars, analyzerVars, returned, unitVars >>

\* review_service.py 80-86, github_service.py 284-302: status 200.
FetchDiff ==
    /\ pc = "fetch"
    /\ \E d \in SampleDiffs : diff' = d
    /\ pc' = "extract"
    /\ UNCHANGED << dbVars, python_files, wsVars, analyzerVars, exc, fault,
                    escaped, returned, unitVars >>

\* github_service.py 296-300: any other status raises HTTPException.
FetchDiffFails ==
    /\ pc = "fetch"
    /\ pc' = "except"
    /\ exc' = "Failed to fetch pull request diff from GitHub"
    /\ fault' = "fetch"
    /\ UNCHANGED << dbVars, inputVars, wsVars, analyzerVars, escaped,
                    returned, unitVars >>

\* The early return never taken.
NoPythonFilesNever(files) == FALSE

\* `if not python_files` (line 91)
NoPythonFiles(files) == DOMAIN files = {}

\* review_service.py 89-96.
Extract ==
    /\ pc = "extract"
    /\ LET files == extract_python_files_from_diff(diff) IN
          /\ python_files' = files
          /\ IF NoPythonFiles(files)
             THEN /\ review' = [review EXCEPT !.status = "completed",
                                              !.completed_at = TRUE,
                                              !.summary = NoFilesSummary,
                                              !.overall_score = 100]
                  /\ pc' = "commit_nofiles"
             ELSE /\ review' = review
                  /\ pc' = "workspace"
    /\ UNCHANGED << row, sessionNew, findingRows, sessionOk, diff, wsVars,
                    analyzerVars, exc, fault, escaped, returned, unitVars >>

\* review_service.py 89: the extraction raises.
ExtractFails ==
    /\ pc = "extract"
    /\ pc' = "except"
    /\ exc' = "extract error"
    /\ fault' = "extract"
    /\ UNCHANGED << dbVars, inputVars, wsVars, analyzerVars, escaped,
                    returned, unitVars >>

\* review_service.py 101, base.py 127-135.
CreateWorkspace ==
    /\ pc = "workspace"
    /\ workspace' = "code_review_1"
    /\ wsExists' = TRUE
    /\ pc' = "write"
    /\ UNCHANGED << dbVars, inputVars, wsFiles, analyzerVars, exc, fault,
                    escaped, returned, unitVars >>

\* base.py 134: mkdtemp raises; `workspace` is still None.
CreateWorkspaceFails ==
    /\ pc = "workspace"
    /\ pc' = "except"
    /\ exc' = "mkdtemp error"
    /\ fault' = "workspace"
    /\ UNCHANGED << dbVars, inputVars, wsVars, analyzerVars, escaped,
                    returned, unitVars >>

\* review_service.py 102-110, base.py 149-165: the files are written and the
\* three analyzers are handed to gather.
WriteFiles ==
    /\ pc = "write"
    /\ wsFiles' = DOMAIN python_files
    /\ pc' = "gather"
    /\ UNCHANGED << dbVars, inputVars, workspace, wsExists, analyzerVars, exc,
                    fault, escaped, returned, unitVars >>

\* base.py 157-165: a write raises after some of the files were written.
WriteFilesFails ==
    /\ pc = "write"
    /\ \E written \in SUBSET (DOMAIN python_files) :
          /\ written # DOMAIN python_files
          /\ wsFiles' = written
    /\ pc' = "except"
    /\ exc' = "write error"
    /\ fault' = "write"
    /\ UNCHANGED << dbVars, inputVars, workspace, wsExists, analyzerVars,
                    escaped, returned, unitVars >>

(***************************************************************************)
(* The analyzers.  gather wraps the three coroutines in tasks, in argument  *)
(* order; the loop starts them in that order.  analyze() calls             *)
(* subprocess.run, which does not yield to the loop: from the start of an   *)
(* analyzer to its return nothing else runs.                                *)
(***************************************************************************)
Pos(a) == CHOOSE i \in 1..Len(AnalyzerOrder) : AnalyzerOrder[i] = a

RECURSIVE DraftsIn(_, _)
DraftsIn(res, i) ==
    IF i > Len(AnalyzerOrder) THEN 0
    ELSE Len(res[AnalyzerOrder[i]].findings) + DraftsIn(res, i + 1)

\* What analyze() of analyzer a can come back with, given room for n drafts.
ResultChoices(a, n) ==
    {Raised} \cup {AnalyzerResult(ok, fs) : ok \in BOOLEAN, fs \in DraftLists(a, n)}

\* review_service.py 105-108, e.g. security.py 76-101: the task of analyzer a
\* starts and enters its tool call.
AnalyzerStart(a) ==
    /\ pc = "gather"
    /\ running = "none"
    /\ results[a].kind = "pending"
    /\ \A b \in Analyzers : Pos(b) < Pos(a) => results[b].kind # "pending"
    /\ running' = a
    /\ UNCHANGED << pc, dbVars, inputVars, wsVars, results, all_findings, exc,
                    fault, escaped, returned, unitVars >>

\* e.g. security.py 103-131: analyze() returns its AnalyzerResult, or raises.
AnalyzerFinish(a) ==
    /\ pc = "gather"
    /\ running = a
    /\ \E r \in ResultChoices(a, MaxFindings - DraftsIn(results, 1)) :
          results' = [results EXCEPT ![a] = r]
    /\ running' = "none"
    /\ UNCHANGED << pc, dbVars, inputVars, wsVars, all_findings, exc, fault,
                    escaped, returned, unitVars >>

(***************************************************************************)
(* Aggregation (review_service.py 112-167).                                 *)
(***************************************************************************)
\* gather without return_exceptions: the first exception of an analyzer is
\* raised into _run_analysis.
GatherPropagatesNaive(res) == \E a \in Analyzers : res[a].kind = "exception"

\* gather(..., return_exceptions=True): an exception of an analyzer is a
\* value of the result list, it is not raised into _run_analysis.
GatherPropagates(res) == FALSE

\* The filter without the test of result.success.
ContributesIgnoringSuccess(result) == result.kind = "result"

\* Lines 115-119: an exception is skipped, a result counts when success.
Contributes(result) == result.kind = "result" /\ result.success

RECURSIVE CollectFrom(_, _, _)
CollectFrom(res, order, i) ==
    IF i > Len(order) THEN <<>>
    ELSE (IF Contributes(res[order[i]]) THEN res[order[i]].findings ELSE <<>>)
         \o CollectFrom(res, order, i + 1)

Reverse(q) == [i \in 1..Len(q) |-> q[Len(q) + 1 - i]]

\* The results walked in the reverse of the launch order.
CollectFindingsReversed(res) == CollectFrom(res, Reverse(AnalyzerOrder), 1)

\* Lines 113-120: all_findings, in the order of the result list.
CollectFindings(res) == CollectFrom(res, AnalyzerOrder, 1)

\* Lines 142-148.
CountSeverity(findings, sev) ==
    Cardinality({i \in 1..Len(findings) : findings[i].severity = sev})
CountOther(findings) ==
    Cardinality({i \in 1..Len(findings) :
                    findings[i].severity \notin {"critical", "warning"}})

FindingsOf(drafts) == [i \in 1..Len(drafts) |-> FindingOf(drafts[i])]

AllDone == \A a \in Analyzers : results[a].kind # "pending"

\* review_service.py 112-167: gather has every result; the findings are
\* added to the session and the review object is updated.
Aggregate ==
    /\ pc = "gather"
    /\ running = "none"
    /\ AllDone
    /\ IF GatherPropagates(results)
       THEN /\ pc' = "except"
            /\ exc' = "analyzer error"
            /\ fault' = "analyzer"
            /\ UNCHANGED << review, sessionNew, all_findings >>
       ELSE LET fs == CollectFindings(results)
                findings == FindingsOf(fs)
                critical_count == CountSeverity(findings, "critical")
                warning_count == CountSeverity(findings, "warning")
                info_count == CountOther(findings)
            IN  /\ all_findings' = fs
                /\ sessionNew' = sessionNew \o findings
                /\ review' = [review EXCEPT
                       !.status = "completed",
                       !.completed_at = TRUE,
                       !.overall_score =
                           _calculate_score(critical_count, warning_count, info_count),
                       !.critical_count = critical_count,
                       !.warning_count = warning_count,
                       !.info_count = info_count,
                       !.summary = _generate_summary(critical_count, warning_count,
                                                     info_count, fs)]
                /\ pc' = "commit_completed"
                /\ UNCHANGED << exc, fault >>
    /\ UNCHANGED << row, findingRows, sessionOk, inputVars, wsVars, results,
                    running, escaped, returned, unitVars >>

\* review_service.py 112-158: a statement of the aggregation raises after k
\* findings were added to the session.
AggregateFails ==
    /\ pc = "gather"
    /\ running = "none"
    /\ AllDone
    /\ LET fs == CollectFindings(results) IN
       \E k \in 0..Len(fs) :
          /\ all_findings' = fs
          /\ sessionNew' = sessionNew \o FindingsOf(SubSeq(fs, 1, k))
    /\ pc' = "except"
    /\ exc' = "aggregation error"
    /\ fault' = "aggregate"
    /\ UNCHANGED << review, row, findingRows, sessionOk, inputVars, wsVars,
                    results, running, escaped, returned, unitVars >>

(***************************************************************************)
(* The except and finally blocks.                                           *)
(***************************************************************************)
\* The except block without the assignment of completed_at.
MarkFailedNoEndTime(r, e) ==
    [r EXCEPT !.status = "failed", !.summary = FailureSummary(e)]

\* Lines 173-175.
MarkFailed(r, e) ==
    [r EXCEPT !.status = "failed", !.completed_at = TRUE,
              !.summary = FailureSummary(e)]

\* review_service.py 171-175; the commit of line 176 is next.
Except ==
    /\ pc = "except"
    /\ review' = MarkFailed(review, exc)
    /\ pc' = "commit_failed"
    /\ UNCHANGED << row, sessionNew, findingRows, sessionOk, inputVars, wsVars,
                    analyzerVars, exc, fault, escaped, returned, unitVars >>

\* Cleanup at the end of the try block instead of in a finally block.
CleanupOnlyOnSuccess(ws) == ws # "None" /\ fault = "none"

\* `if workspace` (line 181)
CleanupNeeded(ws) == ws # "None"

\* review_service.py 179-182, base.py 138-146.
Finally ==
    /\ pc = "finally"
    /\ IF CleanupNeeded(workspace)
       THEN /\ wsExists' = FALSE
            /\ wsFiles' = {}
       ELSE UNCHANGED << wsExists, wsFiles >>
    /\ pc' = "done"
    \* an awaited _run_analysis would hand control back only here
    /\ returned' = IF AwaitsTask THEN review.status ELSE returned
    /\ UNCHANGED << dbVars, inputVars, workspace, analyzerVars, exc, fault,
                    escaped, unitVars >>

(***************************************************************************)
(* Specification.                                                           *)
(***************************************************************************)
Next ==
    \/ CreateReview
    \/ CreateReviewFails
    \/ Begin
    \/ \E site \in CommitSites : Commit(site)
    \/ FetchDiff
    \/ FetchDiffFails
    \/ Extract
    \/ ExtractFails
    \/ CreateWorkspace
    \/ CreateWorkspaceFails
    \/ WriteFiles
    \/ WriteFilesFails
    \/ \E a \in Analyzers : AnalyzerStart(a)
    \/ \E a \in Analyzers : AnalyzerFinish(a)
    \/ Aggregate
    \/ AggregateFails
    \/ Except
    \/ Finally

Spec == Init /\ [][Next]_vars

(***************************************************************************)
(* _calculate_score on its own: the arguments are drawn from                *)
(* 0..MaxCount and the function is applied once.                            *)
(***************************************************************************)
InitScore ==
    /\ InitRun
    /\ WebhookIdle
    /\ RunsIdle
    /\ WriteIdle
    /\ SummaryIdle
    /\ ExtractIdle
    /\ scoreIn \in (0..MaxCount) \X (0..MaxCount) \X (0..MaxCount)
    /\ scoreOut = NullScore
    /\ AnalyzeIdle
    /\ TruncateIdle
    /\ ParseIdle
    /\ AIIdle

ApplyScore ==
    /\ scoreOut = NullScore
    /\ scoreOut' = _calculate_score(scoreIn[1], scoreIn[2], scoreIn[3])
    /\ UNCHANGED << pc, dbVars, inputVars, wsVars, analyzerVars, exc, fault,
                    escaped, returned, webhookVars, runsVars, writeVars,
                    summaryVars, extractVars, scoreIn, analyzeVars, truncVars,
                    parseVars, aiVars >>

NextScore == ApplyScore

SpecScore == InitScore /\ [][NextScore]_vars

(***************************************************************************)
(* Properties.                                                              *)
(***************************************************************************)
LegalStatusSteps ==
    { <<"absent", "pending">>, <<"pending", "in_progress">>,
      <<"in_progress", "completed">>, <<"in_progress", "failed">> }

C2_ScoreIffCompleted ==
    review.status # "absent" =>
        (review.overall_score # NullScore <=> review.status = "completed")

\* C3: when _run_analysis has ended, normally or after a fault, the
\* workspace directory of the run does not exist.
C3_WorkspaceGone == pc = "done" => ~wsExists /\ wsFiles = {}

\* A run that created its workspace, failed in the aggregation and whose
\* failure handler raised as well has ended.
C3_Witness ==
    /\ pc = "done"
    /\ workspace # "None"
    /\ fault = "aggregate"
    /\ escaped

\* The findings of the analyzers that returned success, in launch order,
\* written out analyzer by analyzer.
Successful(a) == results[a].kind = "result" /\ results[a].success
Unsuccessful(a) == results[a].kind = "result" /\ ~results[a].success
Kept(a) == IF Successful(a) THEN results[a].findings ELSE <<>>
ExpectedFindings == Kept("security") \o Kept("quality") \o Kept("complexity")

\* The aggregation loop has run (to its end or to a fault).
Aggregated == AllDone /\ pc # "gather"

\* C4: no entry of the findings of an AnalyzerResult with success = false
\* is collected, added to the session, stored or counted.
C4_FailedContributeNothing ==
    Aggregated =>
        /\ \A a \in Analyzers : Unsuccessful(a) =>
              /\ \A i \in 1..Len(all_findings) :
                     all_findings[i].tool_source # ToolOf(a)
              /\ \A i \in 1..Len(sessionNew) :
                     sessionNew[i].tool_source # ToolOf(a)
              /\ \A i \in 1..Len(findingRows) :
                     findingRows[i].tool_source # ToolOf(a)
        /\ \A r \in {review, row} : r.status = "completed" =>
              r.critical_count + r.warning_count + r.info_count
                 = Len(Kept("security")) + Len(Kept("quality"))
                   + Len(Kept("complexity"))

\* A completed review one of whose analyzers returned success = false with
\* a non-empty findings field.
C4_Witness ==
    /\ pc = "done"
    /\ row.status = "completed"
    /\ \E a \in Analyzers : Unsuccessful(a) /\ results[a].findings # <<>>
    /\ \E a \in Analyzers : Successful(a) /\ results[a].findings # <<>>

\* C5: whatever subset of the analyzers fails (success = false, or an
\* exception), every analyzer runs to its end, the findings of the others
\* are stored and the review ends completed; security with one critical
\* finding, quality with none and complexity failing gives (1,0,0), score 80.
C5_FailureIsolation ==
    /\ Aggregated => AllDone
    /\ (pc = "done" /\ AllDone /\ fault \in {"none", "analyzer"}) =>
          /\ row.status = "completed"
          /\ findingRows = FindingsOf(ExpectedFindings)
          /\ ( /\ results["security"] =
                     AnalyzerResult(TRUE, <<Draft("security", "critical")>>)
               /\ results["quality"] = AnalyzerResult(TRUE, <<>>)
               /\ ~Successful("complexity") )
             => /\ row.critical_count = 1
                /\ row.warning_count = 0
                /\ row.info_count = 0
                /\ row.overall_score = 80

\* The scenario of the claim, with complexity either returning
\* success = false or raising.
C5_Witness ==
    /\ pc = "done"
    /\ results["security"] = AnalyzerResult(TRUE, <<Draft("security", "critical")>>)
    /\ results["quality"] = AnalyzerResult(TRUE, <<>>)
    /\ results["complexity"] = Raised
    /\ row.status = "completed"
    /\ row.overall_score = 80

\* C6: the aggregated list is the concatenation of the successful
\* analyzers' findings in launch order (security, quality, complexity),
\* each analyzer's own order kept; the stored rows follow it.
C6_LaunchOrder ==
    /\ Aggregated => all_findings = ExpectedFindings
    /\ (pc = "done" /\ row.status = "completed") =>
          findingRows = FindingsOf(ExpectedFindings)

\* Two analyzers contributed, the first of them two different findings.
C6_Witness ==
    /\ pc = "done"
    /\ row.status = "completed"
    /\ Successful("security") /\ Len(results["security"].findings) = 2
    /\ results["security"].findings[1] # results["security"].findings[2]
    /\ Successful("complexity") /\ Len(results["complexity"].findings) = 1
    /\ Len(findingRows) = 3

\* C7: critical_count + warning_count + info_count of a Review equals the
\* number of Finding rows bound to it.
C7_CountsMatchRows ==
    row.critical_count + row.warning_count + row.info_count = Len(findingRows)

\* C8: _calculate_score(c, w, i) = max(0, min(100, 100 - 20c - 10w - 2i)),
\* a value in 0..100.
C8_ScoreFormula ==
    scoreOut # NullScore =>
        LET raw == 100 - 20 * scoreIn[1] - 10 * scoreIn[2] - 2 * scoreIn[3] IN
        /\ scoreOut \in 0..100
        /\ scoreOut = Max(0, Min(100, raw))
        /\ raw < 0 => scoreOut = 0
        /\ raw \in 0..100 => scoreOut = raw
        /\ scoreIn = <<0, 0, 0>> => scoreOut = 100
        /\ scoreIn = <<1, 0, 0>> => scoreOut = 80
        /\ scoreIn = <<5, 0, 0>> => scoreOut = 0
        /\ scoreIn = <<2, 1, 0>> => scoreOut = 50

\* A call whose unclamped value is negative.
C8_Witness == scoreIn = <<6, 1, 1>> /\ scoreOut = 0

\* The extraction has run in this state.
Extracted ==
    /\ pc \notin {"idle", "create_failed", "scheduled", "commit_start", "fetch",
                  "extract"}
    /\ fault \notin {"commit_start", "fetch", "extract"}

\* C9: when the diff yields no candidate file, no workspace is created and
\* no analyzer is launched; the review goes from in_progress directly to
\* completed with score 100, no findings, zero counts and the summary
\* "No Python files found in this pull request.".
C9_NoFiles ==
    (Extracted /\ DOMAIN extract_python_files_from_diff(diff) = {}) =>
        /\ workspace = "None" /\ ~wsExists
        /\ running = "none"
        /\ \A a \in Analyzers : results[a].kind = "pending"
        /\ sessionNew = <<>> /\ findingRows = <<>>
        /\ pc = "commit_nofiles" =>
              row.status = "in_progress" /\ review.status = "completed"
        /\ (pc = "done" /\ fault = "none") =>
              /\ row.status = "completed"
              /\ row.overall_score = 100
              /\ row.critical_count = 0
              /\ row.warning_count = 0
              /\ row.info_count = 0
              /\ row.completed_at
              /\ row.summary.lines = <<"No Python files found in this pull request.">>

\* A run over a diff that touches a text file only has ended.
C9_Witness ==
    /\ pc = "done"
    /\ fault = "none"
    /\ diff = << GitLine("notes.txt"), Plus3Line("notes.txt"), AddLine("t1") >>
    /\ row.status = "completed"

FaultText(f) ==
    CASE f = "fetch" -> "Failed to fetch pull request diff from GitHub"
      [] f = "extract" -> "extract error"
      [] f = "workspace" -> "mkdtemp error"
      [] f = "write" -> "write error"
      [] f = "aggregate" -> "aggregation error"
      [] OTHER -> ""

\* C10: a fault raised by the diff fetch, the extraction, the workspace
\* creation, the file writing or the aggregation leaves the Review failed,
\* with completed_at set and the error text in its summary (the summary is
\* "Review failed: " followed by the text), once the handler has committed.
C10_FaultMarksFailed ==
    /\ (pc \in {"commit_failed"}
           /\ fault \in {"fetch", "extract", "workspace", "write", "aggregate"}) =>
          /\ review.status = "failed"
          /\ review.completed_at
          /\ review.summary.lines = <<"Review failed: ", FaultText(fault)>>
    /\ (pc = "done" /\ ~escaped
           /\ fault \in {"fetch", "extract", "workspace", "write", "aggregate"}) =>
          /\ row.status = "failed"
          /\ row.completed_at
          /\ row.summary.kind = "text"
          /\ row.summary.lines = <<"Review failed: ", FaultText(fault)>>

\* A run whose diff fetch failed has ended and is stored as failed.
C10_Witness ==
    /\ pc = "done"
    /\ fault = "fetch"
    /\ row.status = "failed"
    /\ row.summary.lines = <<"Review failed: ", "Failed to fetch pull request diff from GitHub">>

(***************************************************************************)
(* Failures of db.commit() inside _run_analysis (lines 78, 97, 169, 176).   *)
(***************************************************************************)
\* A commit of the run raised: one of the try block (recorded in `fault`),
\* or the one of the except block (recorded in `escaped`).
CommitFailed ==
    \/ fault \in {"commit_start", "commit_nofiles", "commit_completed"}
    \/ escaped

\* C11: when a db.commit() of _run_analysis raised, the run ends with the
\* persisted Review failed, its summary "Review failed: " followed by the
\* error text, and no exception has left the background task.
C11_CommitFailureMarksFailed ==
    (pc = "done" /\ CommitFailed) =>
        /\ row.status = "failed"
        /\ row.summary.lines = <<"Review failed: ", exc>>
        /\ ~escaped

\* C12: create_review stores the new Review as pending with the three counts
\* 0 and returns without waiting for the analysis: whatever the background
\* task has done since, the Review the caller received at return was pending.
C12_ReturnsPending ==
    /\ pc = "scheduled" =>
          /\ row.status = "pending"
          /\ row.critical_count = 0 /\ row.warning_count = 0 /\ row.info_count = 0
          /\ returned = "pending"
    /\ pc \notin {"idle", "create_failed"} => returned = "pending"

\* The task has run to its end, and the caller had received a pending Review.
C12_Witness ==
    /\ pc = "done"
    /\ row.status = "completed"
    /\ returned = "pending"

(***************************************************************************)
(* Launch of the analyzers.                                                 *)
(***************************************************************************)
\* The analyzer singletons of the analysis package: security_analyzer,
\* quality_analyzer, complexity_analyzer and ai_reviewer.
AnalyzerVariants == Analyzers \cup {"ai"}

\* Variant v has been launched in this run: it is one of the coroutines of
\* the gather call (lines 105-110) and its task has started.
Launched(v) ==
    /\ v \in Analyzers
    /\ running = v \/ results[v].kind # "pending"

\* C13: in a run with at least one candidate file every analyzer variant,
\* the AI one included, is launched (once), after the files were written to
\* the workspace and before the aggregation.
C13_EveryVariantLaunched ==
    /\ (pc = "gather" /\ \E v \in AnalyzerVariants : Launched(v)) =>
          /\ DOMAIN python_files # {}
          /\ wsExists
          /\ wsFiles = DOMAIN python_files
    /\ (pc \in {"commit_completed", "done"} /\ DOMAIN python_files # {}
            /\ fault = "none") =>
          \A v \in AnalyzerVariants : Launched(v)

(***************************************************************************)
(* analyze() of the three subprocess-backed analyzers, on its own.  Each    *)
(* subprocess.run call of an analyzer does one of five things: it prints    *)
(* JSON the parser accepts ("output", with the findings parsed from it), it *)
(* prints nothing ("empty"), it exceeds the timeout ("timeout"), the        *)
(* executable is not installed ("missing": FileNotFoundError), or it prints *)
(* something json.loads rejects ("malformed").                              *)
(***************************************************************************)
CallKinds == {"output", "empty", "timeout", "missing", "malformed"}

ToolCall(kind, fs) == [kind |-> kind, findings |-> fs]

ToolCalls(a) ==
    {ToolCall(k, <<>>) : k \in CallKinds \ {"output"}}
        \cup {ToolCall("output", fs) : fs \in DraftLists(a, MaxToolFindings)}

\* str(e) of the FileNotFoundError subprocess.run raises for executable t.
NoSuchFile(t) ==
    CASE t = "bandit" -> "[Errno 2] No such file or directory: 'bandit'"
      [] t = "pylint" -> "[Errno 2] No such file or directory: 'pylint'"
      [] OTHER -> "[Errno 2] No such file or directory: 'radon'"

\* AnalyzerResult(tool, findings, success, error); error "" stands for None.
ToolResult(t, fs, ok, err) ==
    [tool |-> t, findings |-> fs, success |-> ok, error |-> err]

\* security.py 87-131
SecurityAnalyze(call) ==
    CASE call.kind = "timeout" ->
            ToolResult("bandit", <<>>, FALSE, "Bandit analysis timed out")
      [] call.kind = "malformed" ->
            ToolResult("bandit", <<>>, FALSE, "Failed to parse Bandit output")
      [] call.kind = "missing" ->
            ToolResult("bandit", <<>>, FALSE, NoSuchFile("bandit"))
      [] call.kind = "empty" -> ToolResult("bandit", <<>>, TRUE, "")
      [] OTHER -> ToolResult("bandit", call.findings, TRUE, "")

\* quality.py 36-77
QualityAnalyze(call) ==
    CASE call.kind = "timeout" ->
            ToolResult("pylint", <<>>, FALSE, "Pylint analysis timed out")
      [] call.kind = "malformed" -> ToolResult("pylint", <<>>, TRUE, "")
      [] call.kind = "missing" ->
            ToolResult("pylint", <<>>, FALSE, NoSuchFile("pylint"))
      [] call.kind = "empty" -> ToolResult("pylint", <<>>, TRUE, "")
      [] OTHER -> ToolResult("pylint", call.findings, TRUE, "")

\* complexity.py 68-93: every exception of the call is answered with [].
_analyze_cyclomatic_complexity(call) ==
    IF call.kind = "output" THEN call.findings ELSE <<>>

\* complexity.py 104-131: likewise.
_analyze_maintainability(call) ==
    IF call.kind = "output" THEN call.findings ELSE <<>>

\* complexity.py 37-53: neither helper raises, so the handler of line 50 is
\* never entered.
ComplexityAnalyze(cc, mi) ==
    ToolResult("radon",
               _analyze_cyclomatic_complexity(cc) \o _analyze_maintainability(mi),
               TRUE, "")

analyze(a, calls) ==
    CASE a = "security" -> SecurityAnalyze(calls[1])
      [] a = "quality" -> QualityAnalyze(calls[1])
      [] OTHER -> ComplexityAnalyze(calls[1], calls[2])

InitAnalyze ==
    /\ InitRun
    /\ WebhookIdle
    /\ RunsIdle
    /\ WriteIdle
    /\ SummaryIdle
    /\ ExtractIdle
    /\ ScoreIdle
    /\ anTool \in Analyzers
    /\ anCalls \in IF anTool = "complexity"
                   THEN {<<cc, mi>> : cc \in ToolCalls(anTool), mi \in ToolCalls(anTool)}
                   ELSE {<<c>> : c \in ToolCalls(anTool)}
    /\ anResult = NoResult
    /\ TruncateIdle
    /\ ParseIdle
    /\ AIIdle

ApplyAnalyze ==
    /\ anResult = NoResult
    /\ anResult' = analyze(anTool, anCalls)
    /\ UNCHANGED << pc, dbVars, inputVars, wsVars, analyzerVars, exc, fault,
                    escaped, returned, webhookVars, runsVars, writeVars,
                    summaryVars, extractVars, scoreVars, anTool, anCalls,
                    truncVars,
                    parseVars, aiVars >>

NextAnalyze == ApplyAnalyze

SpecAnalyze == InitAnalyze /\ [][NextAnalyze]_vars

SomeCall(kinds) == \E i \in 1..Len(anCalls) : anCalls[i].kind \in kinds

\* C14: when a tool call of the security, quality or complexity analyzer
\* exceeds its timeout, analyze returns success = false with no findings.
C14_TimeoutFails ==
    (anResult # NoResult /\ SomeCall({"timeout"})) =>
        /\ ~anResult.success
        /\ anResult.findings = <<>>

\* C15: when the tool is missing or its output cannot be parsed, analyze
\* returns success = false with a non-empty error.
C15_MissingOrMalformedFails ==
    (anResult # NoResult /\ SomeCall({"missing", "malformed"})) =>
        /\ ~anResult.success
        /\ anResult.error # ""

(***************************************************************************)
(* AIReviewer._truncate_files (ai_reviewer.py 82-115), on its own.  A file  *)
(* content is kept by its length; `files` is the list of the dictionary's   *)
(* items in insertion order.  An item of the result records how many        *)
(* characters of the original it holds and whether the marker              *)
(* "\n\n... (truncated)" was appended.                                      *)
(***************************************************************************)
\* len("\n\n... (truncated)") (line 112)
MarkerLen == 17
\* the threshold of `if remaining > 1000` (line 111)
MinRemaining == 1000
\* max_chars of AIReviewer.analyze (line 49)
DefaultMaxChars == 50000

FileNames == <<"a.py", "b.py", "c.py", "d.py">>
FileSizes == {0, 500, 1000, 1001, 3000}
Budgets == {0, 1000, 1500, 2000, DefaultMaxChars}

FileItem(n, size) == [name |-> n, size |-> size]

\* Dictionaries of at most n files: lists of items with distinct keys.
FileDicts(n) ==
    LET names == {FileNames[i] : i \in 1..Min(n, Len(FileNames))}
        items == {FileItem(nm, sz) : nm \in names, sz \in FileSizes}
    IN  {q \in SeqsUpTo(items, n) :
            \A i, j \in 1..Len(q) : i # j => q[i].name # q[j].name}

\* sorted(files.items(), key=lambda x: len(x[1])) (line 98): a stable sort.
InsertBySize(sorted, item) ==
    LET k == Cardinality({i \in 1..Len(sorted) : sorted[i].size <= item.size})
    IN  SubSeq(sorted, 1, k) \o <<item>> \o SubSeq(sorted, k + 1, Len(sorted))

RECURSIVE SortBySize(_)
SortBySize(q) ==
    IF q = <<>> THEN <<>>
    ELSE InsertBySize(SortBySize(SubSeq(q, 1, Len(q) - 1)), q[Len(q)])

Packed(n, kept, marker) == [name |-> n, kept |-> kept, marker |-> marker]

\* len() of a content of the result.
ContentLen(p) == p.kept + (IF p.marker THEN MarkerLen ELSE 0)

\* `if remaining > 1000` (line 111)
CanTruncate(remaining) == remaining > MinRemaining

\* The loop of lines 103-113 from item i on, with total_chars = total.
RECURSIVE PackFrom(_, _, _, _)
PackFrom(sorted, i, total, max_chars) ==
    IF i > Len(sorted) THEN <<>>
    ELSE LET file_size == sorted[i].size IN
         IF total + file_size <= max_chars
         THEN <<Packed(sorted[i].name, file_size, FALSE)>>
                  \o PackFrom(sorted, i + 1, total + file_size, max_chars)
         ELSE LET remaining == max_chars - total IN
              IF CanTruncate(remaining)
              THEN <<Packed(sorted[i].name, Min(file_size, remaining), TRUE)>>
              ELSE <<>>

_truncate_files(files, max_chars) == PackFrom(SortBySize(files), 1, 0, max_chars)

InitTruncate ==
    /\ InitRun
    /\ WebhookIdle
    /\ RunsIdle
    /\ WriteIdle
    /\ SummaryIdle
    /\ ExtractIdle
    /\ ScoreIdle
    /\ AnalyzeIdle
    /\ ParseIdle
    /\ AIIdle
    /\ trFiles \in FileDicts(MaxFiles)
    /\ trMax \in Budgets
    /\ trOut = <<>>
    /\ trPc = "call"

ApplyTruncate ==
    /\ trPc = "call"
    /\ trOut' = _truncate_files(trFiles, trMax)
    /\ trPc' = "returned"
    /\ UNCHANGED << pc, dbVars, inputVars, wsVars, analyzerVars, exc, fault,
                    escaped, returned, webhookVars, runsVars, writeVars,
                    summaryVars, extractVars, scoreVars, analyzeVars,
                    trFiles, trMax,
                    parseVars, aiVars >>

NextTruncate == ApplyTruncate

SpecTruncate == InitTruncate /\ [][NextTruncate]_vars

RECURSIVE TotalChars(_)
TotalChars(out) ==
    IF out = <<>> THEN 0 ELSE ContentLen(Head(out)) + TotalChars(Tail(out))

\* C17: the contents _truncate_files returns have at most max_chars
\* characters in total.
C17_WithinBudget ==
    trPc = "returned" => TotalChars(trOut) <= trMax

RECURSIVE SizeSum(_, _)
SizeSum(sorted, k) == IF k = 0 THEN 0 ELSE sorted[k].size + SizeSum(sorted, k - 1)

\* Number of leading files of the size order that fit whole.
FitCount(sorted, max_chars) ==
    Cardinality({k \in 1..Len(sorted) : SizeSum(sorted, k) <= max_chars})

\* C18: files are taken in ascending size order and included whole while
\* they fit; the first file that does not fit is included truncated, with
\* the marker, when at least 1000 characters of budget remain (1000 itself
\* included) and dropped otherwise; every file after it is dropped.
C18_PackingRule ==
    trPc = "returned" =>
        LET sorted == SortBySize(trFiles)
            k == FitCount(sorted, trMax)
            remaining == trMax - SizeSum(sorted, k)
        IN  /\ \A i \in 1..(Len(sorted) - 1) : sorted[i].size <= sorted[i + 1].size
            /\ Len(trOut) >= k
            /\ \A i \in 1..k : trOut[i] = Packed(sorted[i].name, sorted[i].size, FALSE)
            /\ IF k < Len(sorted) /\ remaining >= MinRemaining
               THEN /\ Len(trOut) = k + 1
                    /\ trOut[k + 1].name = sorted[k + 1].name
                    /\ trOut[k + 1].marker
               ELSE Len(trOut) = k

(***************************************************************************)
(* AIReviewer._parse_ai_response and _map_category (ai_reviewer.py          *)
(* 117-225), on their own.  A response is kept by what the function reads   *)
(* of it:                                                                   *)
(*   wrap      "fenced": the ```json ... ``` pattern of line 131 matches;    *)
(*             "bare": it does not, the {...} pattern of line 136 does;     *)
(*             "none": neither matches;                                     *)
(*   kind      what json.loads makes of the matched text: "invalid" (it     *)
(*             raises JSONDecodeError), "object" (a dict) or "array" (a     *)
(*             value that is not a dict: a list, a string, a number, null); *)
(*   findings  the "findings" member of the object: "absent", "null",       *)
(*             "string" or "list";                                          *)
(*   items     the entries of that list;                                    *)
(*   length    len(response).                                               *)
(* A member of a finding object that is missing is "<absent>", one that is  *)
(* not a string (null, a number) is "<null>".                               *)
(***************************************************************************)
\* response[:1000] (lines 146 and 191)
DescriptionLimit == 1000

Absent == "<absent>"
NonString == "<null>"

ItemCategories == {Absent, NonString, "SECURITY", "unknown-category"}
ItemSeverities == {Absent, NonString, "CRITICAL", "warning", "SUPER_CRITICAL"}

\* An entry of the list: a finding object, or a value that is not an object.
Item(obj, c, s) == [obj |-> obj, category |-> c, severity |-> s]
Items ==
    {Item(TRUE, c, s) : c \in ItemCategories, s \in ItemSeverities}
        \cup {Item(FALSE, Absent, Absent)}

Response(w, k, f, its, n) ==
    [wrap |-> w, kind |-> k, findings |-> f, items |-> its, length |-> n]

\* The values json.loads can give for the matched text.  A text matched by
\* \{.*\} starts with a brace: it is an object or it does not parse.
Payloads(w) ==
    IF w = "none" THEN {<<"invalid", "absent", <<>> >>}
    ELSE {<<"invalid", "absent", <<>> >>}
        \cup (IF w = "fenced" THEN {<<"array", "absent", <<>> >>} ELSE {})
        \cup {<<"object", f, <<>> >> : f \in {"absent", "null", "string"}}
        \cup {<<"object", "list", its>> : its \in SeqsUpTo(Items, MaxItems)}

\* len(response): a response in which a pattern matches is not empty.
ResponseLengths(w) ==
    IF w = "none" THEN {0, 40, 1500} ELSE {40, DescriptionLimit, 1500}

\* str.lower() on the strings of the model.
Lower(s) ==
    CASE s = "SECURITY" -> "security"
      [] s = "CRITICAL" -> "critical"
      [] s = "SUPER_CRITICAL" -> "super_critical"
      [] OTHER -> s

\* The keys of category_map (lines 213-223).
CategoryMap ==
    {"best-practices", "design", "error-handling", "performance",
     "maintainability", "testing", "architecture", "security", "quality"}

\* The lower-cased name handed through without the lookup.
MapCategoryPassThrough(ai_category) == Lower(ai_category)

\* ai_reviewer.py 203-225
_map_category(ai_category) ==
    IF Lower(ai_category) \in CategoryMap THEN Lower(ai_category) ELSE "ai-review"

\* A description: a prefix of the response, a literal of the code, or the
\* "description" member of a finding object.
Description(kind, n) == [kind |-> kind, length |-> n]

AIFinding(c, s, d) ==
    [category |-> c, severity |-> s, description |-> d, tool_source |-> "ai-claude"]

\* Lines 142-152: the finding made of the text of the response.
GenericFinding(response) ==
    AIFinding("ai-review", "info",
              IF response.length # 0
              THEN Description("response_prefix", Min(response.length, DescriptionLimit))
              ELSE Description("No feedback provided", 20))

\* Lines 187-197: the same with response[:1000] unconditionally.
FallbackFinding(response) ==
    AIFinding("ai-review", "info",
              Description("response_prefix", Min(response.length, DescriptionLimit)))

\* Lines 162-167 raise AttributeError on an entry that is not an object and
\* on a category or severity that is not a string.
ItemRaises(item) ==
    \/ ~item.obj
    \/ item.category = NonString
    \/ item.severity = NonString

\* Lines 162-179
ParsedFinding(item) ==
    LET category == _map_category(IF item.category = Absent THEN "best-practices"
                                  ELSE item.category)
        lowered == Lower(IF item.severity = Absent THEN "info" ELSE item.severity)
        severity == IF lowered \notin {"critical", "warning", "info"}
                    THEN "info" ELSE lowered
    IN  AIFinding(category, severity, Description("field", 0))

\* The loop of lines 160-181; the exception of an entry ends it and line
\* 198 returns what was appended before.
RECURSIVE ParseItems(_, _)
ParseItems(items, i) ==
    IF i > Len(items) \/ ItemRaises(items[i]) THEN <<>>
    ELSE <<ParsedFinding(items[i])>> \o ParseItems(items, i + 1)

\* ai_reviewer.py 117-201
_parse_ai_response(response) ==
    CASE response.wrap = "none" -> <<GenericFinding(response)>>
      [] response.kind = "invalid" -> <<FallbackFinding(response)>>
      \* data.get on a value that is not a dict: AttributeError, line 198
      [] response.kind = "array" -> <<>>
      \* data.get("findings", []) gives [], None or a string: nothing is
      \* appended (the for statement raises on None, .get raises on a character)
      [] response.findings # "list" -> <<>>
      [] OTHER -> ParseItems(response.items, 1)

InitParse ==
    /\ InitRun
    /\ WebhookIdle
    /\ RunsIdle
    /\ WriteIdle
    /\ SummaryIdle
    /\ ExtractIdle
    /\ ScoreIdle
    /\ AnalyzeIdle
    /\ TruncateIdle
    /\ AIIdle
    /\ \E w \in {"fenced", "bare", "none"} :
       \E p \in Payloads(w), n \in ResponseLengths(w) :
          prResponse = Response(w, p[1], p[2], p[3], n)
    /\ prOut = <<>>
    /\ prPc = "call"

ApplyParse ==
    /\ prPc = "call"
    /\ prOut' = _parse_ai_response(prResponse)
    /\ prPc' = "returned"
    /\ UNCHANGED << pc, dbVars, inputVars, wsVars, analyzerVars, exc, fault,
                    escaped, returned, webhookVars, runsVars, writeVars,
                    summaryVars, extractVars, scoreVars, analyzeVars,
                    truncVars,
                    prResponse, aiVars >>

NextParse == ApplyParse

SpecParse == InitParse /\ [][NextParse]_vars

\* No list of finding objects can be read from the response.
NoFindingsList(r) ==
    \/ r.wrap = "none"
    \/ r.kind # "object"
    \/ r.findings # "list"
    \/ \E i \in 1..Len(r.items) : ~r.items[i].obj

\* C19: for a response from which no list of findings can be parsed (no
\* JSON, JSON that does not parse, JSON that is not an object with a list of
\* finding objects) the result is exactly one finding, of category
\* "ai-review" and severity info, whose description is the first 1000
\* characters of the response.
C19_FallbackFinding ==
    (prPc = "returned" /\ NoFindingsList(prResponse)) =>
        /\ Len(prOut) = 1
        /\ prOut[1].category = "ai-review"
        /\ prOut[1].severity = "info"
        /\ prOut[1].description =
               Description("response_prefix", Min(prResponse.length, DescriptionLimit))

\* The severity the model gave for an entry ("info" when it gave none).
GivenSeverity(item) == IF item.severity = Absent THEN "info" ELSE item.severity

\* The findings were read from the list of the response.
ParsedFromList(r) == r.wrap # "none" /\ r.kind = "object" /\ r.findings = "list"

\* C20: every finding _parse_ai_response returns has a severity among
\* critical, warning and info (the lower-cased value of the model when that
\* is one of the three, info otherwise), a category of the fixed vocabulary
\* (matched without regard to case) or "ai-review", and tool_source
\* "ai-claude".
C20_FindingsNormalised ==
    prPc = "returned" =>
        /\ \A i \in 1..Len(prOut) :
              /\ prOut[i].severity \in {"critical", "warning", "info"}
              /\ prOut[i].category \in CategoryMap \cup {"ai-review"}
              /\ prOut[i].tool_source = "ai-claude"
        /\ ParsedFromList(prResponse) =>
              \A i \in 1..Len(prOut) :
                 LET lowered == Lower(GivenSeverity(prResponse.items[i])) IN
                 /\ lowered \in {"critical", "warning", "info"} =>
                        prOut[i].severity = lowered
                 /\ lowered \notin {"critical", "warning", "info"} =>
                        prOut[i].severity = "info"

\* A response with two findings was parsed: an upper-case severity and
\* category were lower-cased, an unknown severity and category were coerced.
C20_Witness ==
    /\ prPc = "returned"
    /\ prResponse.items = << Item(TRUE, "SECURITY", "CRITICAL"),
                             Item(TRUE, "unknown-category", "SUPER_CRITICAL") >>
    /\ ParsedFromList(prResponse)
    /\ Len(prOut) = 2
    /\ prOut[1].severity = "critical" /\ prOut[1].category = "security"
    /\ prOut[2].severity = "info" /\ prOut[2].category = "ai-review"

(***************************************************************************)
(* AIReviewer.analyze (ai_reviewer.py 20-80), on its own.  The call of      *)
(* claude_service.review_code is the one suspension point: the coroutine    *)
(* waits at "call" until the service returns a response or raises.          *)
(***************************************************************************)
\* Responses the service returns in this specification.
AIResponses ==
    { Response("none", "invalid", "absent", <<>>, 40),
      Response("fenced", "array", "absent", <<>>, 40),
      Response("fenced", "object", "list", <<Item(TRUE, "SECURITY", "CRITICAL")>>, 40) }

InitAI ==
    /\ InitRun
    /\ WebhookIdle
    /\ RunsIdle
    /\ WriteIdle
    /\ SummaryIdle
    /\ ExtractIdle
    /\ ScoreIdle
    /\ AnalyzeIdle
    /\ TruncateIdle
    /\ ParseIdle
    /\ aiAvailable \in BOOLEAN
    /\ aiFiles \in FileDicts(MaxFiles)
    /\ aiPc = "start"
    /\ aiCalls = 0
    /\ aiResult = NoResult

AIUnchanged ==
    UNCHANGED << pc, dbVars, inputVars, wsVars, analyzerVars, exc, fault,
                 escaped, returned, webhookVars, runsVars, writeVars,
                 summaryVars, extractVars, scoreVars, analyzeVars, truncVars,
                 parseVars, aiAvailable, aiFiles >>

\* The model called whatever the packed set holds.
SkipsModelNever(truncated_files) == FALSE

\* `if len(truncated_files) == 0` (line 52)
SkipsModel(truncated_files) == Len(truncated_files) = 0

\* Lines 39-45: no credential.
AIUnavailable ==
    /\ aiPc = "start"
    /\ ~aiAvailable
    /\ aiResult' = ToolResult("ai-claude", <<>>, FALSE,
           "Claude API key not configured. Set ANTHROPIC_API_KEY environment variable.")
    /\ aiPc' = "returned"
    /\ UNCHANGED aiCalls
    /\ AIUnchanged

\* Lines 49-58: nothing was packed.
AIEmpty ==
    /\ aiPc = "start"
    /\ aiAvailable
    /\ SkipsModel(_truncate_files(aiFiles, DefaultMaxChars))
    /\ aiResult' = ToolResult("ai-claude", <<>>, TRUE, "")
    /\ aiPc' = "returned"
    /\ UNCHANGED aiCalls
    /\ AIUnchanged

\* Lines 49-65: review_code is called with the packed files and awaited.
AICall ==
    /\ aiPc = "start"
    /\ aiAvailable
    /\ ~SkipsModel(_truncate_files(aiFiles, DefaultMaxChars))
    /\ aiCalls' = aiCalls + 1
    /\ aiPc' = "call"
    /\ UNCHANGED aiResult
    /\ AIUnchanged

\* Lines 62-68, 75-80: the service returns the response; it is parsed.
AIResponse ==
    /\ aiPc = "call"
    /\ \E response \in AIResponses :
          aiResult' = ToolResult("ai-claude", _parse_ai_response(response), TRUE, "")
    /\ aiPc' = "returned"
    /\ UNCHANGED aiCalls
    /\ AIUnchanged

\* Lines 70-80, claude_service.py 72-73: the service raises.
AIError ==
    /\ aiPc = "call"
    /\ aiResult' = ToolResult("ai-claude", <<>>, FALSE,
                              "AI review failed: Claude API call failed: error")
    /\ aiPc' = "returned"
    /\ UNCHANGED aiCalls
    /\ AIUnchanged

NextAI ==
    \/ AIUnavailable
    \/ AIEmpty
    \/ AICall
    \/ AIResponse
    \/ AIError

SpecAI == InitAI /\ [][NextAI]_vars

\* C16: AIReviewer.analyze calls the model at most once, and only with a
\* credential and a non-empty packed file set; without a credential it
\* returns success = false, the configuration error and no findings; with an
\* empty packed set it returns success = true and no findings; the model is
\* called in neither case.
C16_ModelCallGuarded ==
    LET packed == _truncate_files(aiFiles, DefaultMaxChars) IN
    /\ aiCalls <= 1
    /\ aiCalls = 1 => aiAvailable /\ packed # <<>>
    /\ (aiPc = "returned" /\ ~aiAvailable) =>
          /\ ~aiResult.success
          /\ aiResult.error =
                "Claude API key not configured. Set ANTHROPIC_API_KEY environment variable."
          /\ aiResult.findings = <<>>
          /\ aiCalls = 0
    /\ (aiPc = "returned" /\ aiAvailable /\ packed = <<>>) =>
          /\ aiResult.success
          /\ aiResult.findings = <<>>
          /\ aiCalls = 0

\* analyze has returned for an empty file dictionary with a credential set:
\* success, no findings, no model call.
C16_Witness ==
    /\ aiPc = "returned"
    /\ aiAvailable
    /\ aiFiles = <<>>
    /\ aiResult.success
    /\ aiCalls = 0

(***************************************************************************)
(* extract_python_files_from_diff (base.py 86-124), on its own.  The diffs  *)
(* are those git writes: every header has its two paths and no path has two *)
(* sections.                                                                *)
(***************************************************************************)
DiffPaths == {"app.py", "notes.txt", "my file.py"}

DiffLines ==
    {GitLine(p) : p \in DiffPaths}
        \cup {Plus3Line("app.py"), AddLine("l1"), AddLine("l2"), AddLine("++x"),
              DelLine("d1"), CtxLine("c1")}

OneSectionPerPath(d) ==
    \A i, j \in 1..Len(d) :
        (i # j /\ d[i].k = "git" /\ d[j].k = "git") => d[i].path # d[j].path

InitExtract ==
    /\ InitRun
    /\ WebhookIdle
    /\ RunsIdle
    /\ WriteIdle
    /\ SummaryIdle
    /\ ScoreIdle
    /\ AnalyzeIdle
    /\ TruncateIdle
    /\ ParseIdle
    /\ AIIdle
    /\ exDiff \in {d \in SeqsUpTo(DiffLines, MaxLines) : OneSectionPerPath(d)}
    /\ exOut = EmptyFiles
    /\ exPc = "call"

ApplyExtract ==
    /\ exPc = "call"
    /\ exOut' = extract_python_files_from_diff(exDiff)
    /\ exPc' = "returned"
    /\ UNCHANGED << pc, dbVars, inputVars, wsVars, analyzerVars, exc, fault,
                    escaped, returned, webhookVars, runsVars, writeVars,
                    summaryVars, exDiff, scoreVars, analyzeVars,
                    truncVars, parseVars, aiVars >>

NextExtract == ApplyExtract

SpecExtract == InitExtract /\ [][NextExtract]_vars

\* The header lines of a diff, and the lines of the section of header i.
Headers(d) == {i \in 1..Len(d) : d[i].k = "git"}
SectionEnd(d, i) ==
    IF \E j \in Headers(d) : j > i
    THEN (CHOOSE j \in Headers(d) : j > i /\ \A h \in Headers(d) : h > i => j <= h) - 1
    ELSE Len(d)

\* The texts of the added lines ('+', not the '+++' header) among lines
\* i..j, in order, without the marker.
RECURSIVE AddedTexts(_, _, _)
AddedTexts(d, i, j) ==
    IF i > j THEN <<>>
    ELSE (IF d[i].k = "add" THEN <<d[i].text>> ELSE <<>>) \o AddedTexts(d, i + 1, j)

\* The path ends with ".py".
PathEndsPy(p) == p \in {"app.py", "my file.py"}

\* C21: the keys of the result are exactly the paths Y of the headers
\* `diff --git a/X b/Y` that end with .py and whose section has an added
\* line; without such a header the map is empty, and a section of another
\* kind of file adds no key.
C21_KeySet ==
    exPc = "returned" =>
        DOMAIN exOut =
            {exDiff[i].path : i \in {h \in Headers(exDiff) :
                /\ PathEndsPy(exDiff[h].path)
                /\ AddedTexts(exDiff, h + 1, SectionEnd(exDiff, h)) # <<>>}}

\* C22: the content returned for a path is the sequence of the added lines
\* of its section, in diff order, each without its leading '+': no removed or
\* context line is in it, no added line is missing.
C22_Content ==
    exPc = "returned" =>
        \A h \in Headers(exDiff) :
            exDiff[h].path \in DOMAIN exOut =>
                exOut[exDiff[h].path] =
                    AddedTexts(exDiff, h + 1, SectionEnd(exDiff, h))

(***************************************************************************)
(* _generate_summary (review_service.py 212-268), on its own: the counts    *)
(* are drawn from 0..MaxCount, the findings from a few lists.               *)
(***************************************************************************)
SummaryFindings ==
    { <<>>,
      << Draft("security", "critical") >>,
      << Draft("quality", "warning"), Draft("security", "critical"),
         Draft("quality", "info") >> }

InitSummary ==
    /\ InitRun
    /\ WebhookIdle
    /\ RunsIdle
    /\ WriteIdle
    /\ ScoreIdle
    /\ AnalyzeIdle
    /\ TruncateIdle
    /\ ParseIdle
    /\ AIIdle
    /\ ExtractIdle
    /\ smIn \in (0..MaxCount) \X (0..MaxCount) \X (0..MaxCount) \X SummaryFindings
    /\ smOut = NoSummary

ApplySummary ==
    /\ smOut = NoSummary
    /\ smOut' = _generate_summary(smIn[1], smIn[2], smIn[3], smIn[4])
    /\ UNCHANGED << pc, dbVars, inputVars, wsVars, analyzerVars, exc, fault,
                    escaped, returned, webhookVars, runsVars, writeVars,
                    smIn, extractVars, scoreVars,
                    analyzeVars, truncVars, parseVars, aiVars >>

NextSummary == ApplySummary

SpecSummary == InitSummary /\ [][NextSummary]_vars

ClosingLines ==
    {"Critical issues found. Please address before merging.",
     "Several warnings found. Consider addressing them.",
     "Code looks good overall. Minor improvements suggested."}

\* C24: with no findings counted the summary is the fixed no-issues text;
\* otherwise it ends with one closing line, chosen by priority: the
\* "address before merging" line when critical_count > 0, else the "consider
\* addressing" line when warning_count > 5, else the "looks good" line.
C24_ClosingLine ==
    smOut # NoSummary =>
        LET critical_count == smIn[1]
            warning_count == smIn[2]
            info_count == smIn[3]
        IN  IF critical_count + warning_count + info_count = 0
            THEN /\ smOut.lines = <<"Great work! No issues found in this pull request.">>
                 /\ smOut.closing = ""
            ELSE /\ smOut.closing \in ClosingLines
                 /\ critical_count > 0 =>
                       smOut.closing = "Critical issues found. Please address before merging."
                 /\ (critical_count = 0 /\ warning_count > 5) =>
                       smOut.closing = "Several warnings found. Consider addressing them."
                 /\ (critical_count = 0 /\ warning_count <= 5) =>
                       smOut.closing = "Code looks good overall. Minor improvements suggested."

\* A summary was made for one critical finding and six warnings: the
\* critical line wins over the warnings line.
C24_Witness ==
    /\ smOut # NoSummary
    /\ smIn[1] = 1
    /\ smIn[2] = 6
    /\ smOut.closing = "Critical issues found. Please address before merging."

RelPath(segs) == [abs |-> FALSE, segs |-> segs]
AbsPath(segs) == [abs |-> TRUE, segs |-> segs]

\* Keys of `files`: "app.py", "pkg/mod.py", "../evil.py", "pkg/../../evil.py"
\* and "/etc/evil.py".
WritePaths ==
    { RelPath(<<"app.py">>), RelPath(<<"pkg", "mod.py">>),
      RelPath(<<"..", "evil.py">>), RelPath(<<"pkg", "..", "..", "evil.py">>),
      AbsPath(<<"etc", "evil.py">>) }

\* The directory create_temp_workspace made: /tmp/code_review_1.
WorkspaceDir == <<"tmp", "code_review_1">>

\* The location the operating system resolves segments to, from `at`.
RECURSIVE Resolve(_, _, _)
Resolve(at, segs, i) ==
    IF i > Len(segs) THEN at
    ELSE IF segs[i] = ".."
    THEN Resolve(IF at = <<>> THEN at ELSE SubSeq(at, 1, Len(at) - 1), segs, i + 1)
    ELSE Resolve(Append(at, segs[i]), segs, i + 1)

\* Lines 157-158: no path is refused.
PathRejected(filepath) == FALSE

\* full_path = workspace / filepath (line 158): a rooted filepath replaces
\* the workspace.
FullPath(workspace_dir, filepath) ==
    Resolve(IF filepath.abs THEN <<>> ELSE workspace_dir, filepath.segs, 1)

\* Lines 161-165: the parent directories and the file.
CreatedBy(location) == {SubSeq(location, 1, n) : n \in 1..Len(location)}

InitWrite ==
    /\ InitRun
    /\ WebhookIdle
    /\ RunsIdle
    /\ SummaryIdle
    /\ ScoreIdle
    /\ AnalyzeIdle
    /\ TruncateIdle
    /\ ParseIdle
    /\ AIIdle
    /\ ExtractIdle
    /\ wrTodo \in {q \in SeqsUpTo(WritePaths, MaxPaths) :
                      \A i, j \in 1..Len(q) : i # j => q[i] # q[j]}
    /\ wrCreated = CreatedBy(WorkspaceDir)
    /\ wrPc = "loop"

WriteUnchanged ==
    UNCHANGED << pc, dbVars, inputVars, wsVars, analyzerVars, exc, fault,
                 escaped, returned, webhookVars, runsVars, summaryVars,
                 extractVars, scoreVars,
                 analyzeVars, truncVars, parseVars, aiVars >>

\* One iteration of the loop of lines 157-165.
WriteOne ==
    /\ wrPc = "loop"
    /\ wrTodo # <<>>
    /\ IF PathRejected(Head(wrTodo))
       THEN UNCHANGED wrCreated
       ELSE wrCreated' = wrCreated \cup CreatedBy(FullPath(WorkspaceDir, Head(wrTodo)))
    /\ wrTodo' = Tail(wrTodo)
    /\ UNCHANGED wrPc
    /\ WriteUnchanged

\* The loop is over.
WriteReturn ==
    /\ wrPc = "loop"
    /\ wrTodo = <<>>
    /\ wrPc' = "returned"
    /\ UNCHANGED << wrTodo, wrCreated >>
    /\ WriteUnchanged

NextWrite == WriteOne \/ WriteReturn

SpecWrite == InitWrite /\ [][NextWrite]_vars

\* The location is the workspace directory, one of its ancestors (which
\* existed before), or lies under the workspace directory.
InsideWorkspace(location) ==
    \/ Len(location) <= Len(WorkspaceDir)
           /\ location = SubSeq(WorkspaceDir, 1, Len(location))
    \/ Len(location) > Len(WorkspaceDir)
           /\ SubSeq(location, 1, Len(WorkspaceDir)) = WorkspaceDir

\* C23: write_files_to_workspace creates no file and no directory outside
\* the workspace directory, whatever the paths of the file map (a rooted
\* path or one with a ".." segment is refused).
C23_NothingOutsideWorkspace ==
    \A location \in wrCreated : InsideWorkspace(location)


\* C28: Finding rows, the three counts, the score and the completed status of
\* a Review are persisted in one commit: no stored Review with status
\* pending, in_progress or failed has Finding rows or a non-zero count.
C28_FindingsOnlyWithCompleted ==
    row.status \in {"pending", "in_progress", "failed"} =>
        /\ findingRows = <<>>
        /\ row.critical_count = 0
        /\ row.warning_count = 0
        /\ row.info_count = 0


\* C26: the tool call of an analyzer is a suspension point: while one
\* analyzer of a run is inside its tool call and another analyzer of the run
\* has not started, that other analyzer can start (two analyzers of one run
\* can be in flight together).
C26_ToolCallSuspends ==
    (pc = "gather" /\ running # "none"
        /\ \E b \in Analyzers : results[b].kind = "pending" /\ b # running) =>
        \E b \in Analyzers : b # running /\ ENABLED AnalyzerStart(b)


(***************************************************************************)
(* Concurrent runs of _run_analysis and their workspace directories         *)
(* (review_service.py 60-182, base.py 127-146).  Every create_review starts *)
(* one task; the tasks share the temp directory of the host.  A step of the *)
(* specification is one statement of one run; runs of one event loop        *)
(* interleave only where a run awaits, runs of different server processes   *)
(* at every statement, and the steps below allow both.  Within a run the    *)
(* analyzers execute one after another, as their tool calls do not yield.   *)
(***************************************************************************)
Runs == 1..MaxRuns

\* The names mkdtemp(prefix="code_review_") can produce, by their suffix.
DirNames == 1..MaxRuns

\* workspace = None (review_service.py 72)
NoDir == 0

NoDirEntry == [exists |-> FALSE, creator |-> 0]

\* A workspace at one fixed path instead of a fresh directory.
MkdirFixed(dirs) == {1}

\* base.py 134: tempfile.mkdtemp creates a directory under a name that does
\* not exist yet.
mkdtemp(dirs) == {d \in DirNames : ~dirs[d].exists}

Access(op, r) ==
    [op |-> op, by |-> r, creator |-> fsDirs[rnWorkspace[r]].creator]

InitRuns ==
    /\ InitRun
    /\ WebhookIdle
    /\ WriteIdle
    /\ SummaryIdle
    /\ ExtractIdle
    /\ ScoreIdle
    /\ AnalyzeIdle
    /\ TruncateIdle
    /\ ParseIdle
    /\ AIIdle
    /\ rnPc = [r \in Runs |-> "start"]
    /\ rnWorkspace = [r \in Runs |-> NoDir]
    /\ rnTodo = [r \in Runs |-> 0]
    /\ rnRunning = [r \in Runs |-> "none"]
    /\ rnDone = [r \in Runs |-> {}]
    /\ fsDirs = [d \in DirNames |-> NoDirEntry]
    /\ fsLog = {}

RunsUnchanged ==
    UNCHANGED << pc, dbVars, inputVars, wsVars, analyzerVars, exc, fault,
                 escaped, returned, webhookVars, scoreVars, analyzeVars,
                 truncVars,
                 parseVars, aiVars, extractVars, summaryVars, writeVars >>

\* review_service.py 75-98: the diff arrives and holds n Python files, or
\* the run ends early (fetch error, empty diff, no Python file).
RunFetch(r) ==
    /\ rnPc[r] = "start"
    /\ \/ \E n \in 1..MaxFiles :
             /\ rnTodo' = [rnTodo EXCEPT ![r] = n]
             /\ rnPc' = [rnPc EXCEPT ![r] = "workspace"]
       \/ /\ rnPc' = [rnPc EXCEPT ![r] = "finally"]
          /\ UNCHANGED rnTodo
    /\ UNCHANGED << rnWorkspace, rnRunning, rnDone, fsDirs, fsLog >>
    /\ RunsUnchanged

\* review_service.py 101, base.py 127-135.
RunCreateWorkspace(r) ==
    /\ rnPc[r] = "workspace"
    /\ \E d \in mkdtemp(fsDirs) :
          /\ rnWorkspace' = [rnWorkspace EXCEPT ![r] = d]
          /\ fsDirs' = [fsDirs EXCEPT ![d] =
                           IF fsDirs[d].exists THEN fsDirs[d]
                           ELSE [exists |-> TRUE, creator |-> r]]
    /\ rnPc' = [rnPc EXCEPT ![r] = "write"]
    /\ UNCHANGED << rnTodo, rnRunning, rnDone, fsLog >>
    /\ RunsUnchanged

\* review_service.py 102, base.py 157-165: one file is written; after the
\* last one the analyzers are handed to gather (lines 105-110).
RunWriteFile(r) ==
    /\ rnPc[r] = "write"
    /\ rnTodo[r] > 0
    /\ rnTodo' = [rnTodo EXCEPT ![r] = @ - 1]
    /\ fsLog' = fsLog \cup {Access("write", r)}
    /\ rnPc' = [rnPc EXCEPT ![r] = IF rnTodo[r] = 1 THEN "gather" ELSE "write"]
    /\ UNCHANGED << rnWorkspace, rnRunning, rnDone, fsDirs >>
    /\ RunsUnchanged

\* review_service.py 101-102, 122-177: mkdtemp, a write or the aggregation
\* raises; the except block runs and then the finally block.
RunRaises(r) ==
    /\ rnPc[r] \in {"workspace", "write", "aggregate"}
    /\ rnPc' = [rnPc EXCEPT ![r] = "finally"]
    /\ UNCHANGED << rnWorkspace, rnTodo, rnRunning, rnDone, fsDirs, fsLog >>
    /\ RunsUnchanged

\* review_service.py 105-108: the next analyzer of the run enters its tool
\* call on the run's workspace.
RunAnalyzerStart(r, a) ==
    /\ rnPc[r] = "gather"
    /\ rnRunning[r] = "none"
    /\ a \notin rnDone[r]
    /\ \A b \in Analyzers : Pos(b) < Pos(a) => b \in rnDone[r]
    /\ rnRunning' = [rnRunning EXCEPT ![r] = a]
    /\ fsLog' = fsLog \cup {Access("analyze", r)}
    /\ UNCHANGED << rnPc, rnWorkspace, rnTodo, rnDone, fsDirs >>
    /\ RunsUnchanged

\* The analyzer returns; gather returns after the last one (line 110).
RunAnalyzerFinish(r, a) ==
    /\ rnPc[r] = "gather"
    /\ rnRunning[r] = a
    /\ rnRunning' = [rnRunning EXCEPT ![r] = "none"]
    /\ rnDone' = [rnDone EXCEPT ![r] = @ \cup {a}]
    /\ rnPc' = [rnPc EXCEPT ![r] =
                   IF rnDone[r] \cup {a} = Analyzers THEN "aggregate"
                   ELSE "gather"]
    /\ UNCHANGED << rnWorkspace, rnTodo, fsDirs, fsLog >>
    /\ RunsUnchanged

\* review_service.py 112-177: the results are stored.
RunAggregate(r) ==
    /\ rnPc[r] = "aggregate"
    /\ rnPc' = [rnPc EXCEPT ![r] = "finally"]
    /\ UNCHANGED << rnWorkspace, rnTodo, rnRunning, rnDone, fsDirs, fsLog >>
    /\ RunsUnchanged

\* review_service.py 179-182, base.py 138-146: `if workspace` and then
\* rmtree of the directory when it exists.
RunFinally(r) ==
    /\ rnPc[r] = "finally"
    /\ IF rnWorkspace[r] # NoDir /\ fsDirs[rnWorkspace[r]].exists
       THEN /\ fsDirs' = [fsDirs EXCEPT ![rnWorkspace[r]] = NoDirEntry]
            /\ fsLog' = fsLog \cup {Access("delete", r)}
       ELSE UNCHANGED << fsDirs, fsLog >>
    /\ rnPc' = [rnPc EXCEPT ![r] = "done"]
    /\ UNCHANGED << rnWorkspace, rnTodo, rnRunning, rnDone >>
    /\ RunsUnchanged

NextRuns ==
    \/ \E r \in Runs : RunFetch(r)
    \/ \E r \in Runs : RunCreateWorkspace(r)
    \/ \E r \in Runs : RunWriteFile(r)
    \/ \E r \in Runs : RunRaises(r)
    \/ \E r \in Runs, a \in Analyzers : RunAnalyzerStart(r, a)
    \/ \E r \in Runs, a \in Analyzers : RunAnalyzerFinish(r, a)
    \/ \E r \in Runs : RunAggregate(r)
    \/ \E r \in Runs : RunFinally(r)

SpecRuns == InitRuns /\ [][NextRuns]_vars

Handlers == 1..MaxHandlers

\* Repository.github_id values of the payloads; one of them is stored.
GithubRepos == {"monitored", "unknown"}
StoredRepos == {"monitored"}
PrNumbers == {1, 2}

\* The payloads GitHub sends: state is "open" or "closed", and a merged
\* pull request is a closed one with merged_at set.
PullRequestEvents ==
    {[action |-> a, repository |-> g, number |-> n, state |-> "open",
      merged_at |-> FALSE] :
        a \in {"opened", "synchronize"}, g \in GithubRepos, n \in PrNumbers}
    \cup
    {[action |-> "closed", repository |-> g, number |-> n, state |-> "closed",
      merged_at |-> m] : g \in GithubRepos, n \in PrNumbers, m \in BOOLEAN}

NoEvent == [action |-> "none", repository |-> "none", number |-> 0,
            state |-> "", merged_at |-> FALSE]

\* api/webhooks.py 108-124
MethodOf(action) ==
    CASE action = "opened" -> "process_pr_opened"
      [] action = "synchronize" -> "process_pr_updated"
      [] action = "closed" -> "process_pr_closed"

SameKey(r, repository_id, pr_number) ==
    r.repository_id = repository_id /\ r.pr_number = pr_number

\* A table without the constraint.
NoUniqueConstraint(rows, new) == FALSE

\* models/pull_request.py 21-24: the INSERT of `new` violates
\* uq_repo_pr_number.
uq_repo_pr_number(rows, new) ==
    \E i \in 1..Len(rows) : SameKey(rows[i], new.repository_id, new.pr_number)

\* query(PullRequest).filter(...).first(): the first row with the key, or 0.
FirstRow(rows, repository_id, pr_number) ==
    IF \E i \in 1..Len(rows) : SameKey(rows[i], repository_id, pr_number)
    THEN CHOOSE i \in 1..Len(rows) :
            /\ SameKey(rows[i], repository_id, pr_number)
            /\ \A j \in 1..(i - 1) : ~SameKey(rows[j], repository_id, pr_number)
    ELSE 0

\* The state the method assigns: lines 62, 77 and 143 copy the payload's
\* state, lines 202-205 derive it from merged_at.
StateWritten(fn, data) ==
    IF fn = "process_pr_closed"
    THEN (IF data.merged_at THEN "merged" ELSE "closed")
    ELSE data.state

InitWebhook ==
    /\ InitRun
    /\ RunsIdle
    /\ WriteIdle
    /\ SummaryIdle
    /\ ExtractIdle
    /\ ScoreIdle
    /\ AnalyzeIdle
    /\ TruncateIdle
    /\ ParseIdle
    /\ AIIdle
    /\ whPc = [h \in Handlers |-> "idle"]
    /\ webhook_data = [h \in Handlers |-> NoEvent]
    /\ whFn = [h \in Handlers |-> "none"]
    /\ pull_request = [h \in Handlers |-> 0]
    /\ whResult = [h \in Handlers |-> "none"]
    /\ pull_requests = <<>>
    /\ whCount = 0

WebhookUnchanged ==
    UNCHANGED << pc, dbVars, inputVars, wsVars, analyzerVars, exc, fault,
                 escaped, returned, scoreVars, analyzeVars, truncVars,
                 parseVars, aiVars, extractVars, summaryVars, writeVars,
                 runsVars >>

\* api/webhooks.py 100-124: a pull_request event arrives and is dispatched.
WhReceive(h) ==
    /\ whPc[h] = "idle"
    /\ whCount < MaxEvents
    /\ \E data \in PullRequestEvents :
          /\ webhook_data' = [webhook_data EXCEPT ![h] = data]
          /\ whFn' = [whFn EXCEPT ![h] = MethodOf(data.action)]
    /\ whPc' = [whPc EXCEPT ![h] = "repository"]
    /\ whCount' = whCount + 1
    /\ UNCHANGED << pull_request, whResult, pull_requests >>
    /\ WebhookUnchanged

\* pull_request_service.py 32-43, 113-123, 174-184: the repository query.
WhQueryRepository(h) ==
    /\ whPc[h] = "repository"
    /\ IF webhook_data[h].repository \in StoredRepos
       THEN /\ whPc' = [whPc EXCEPT ![h] = "pull_request"]
            /\ UNCHANGED whResult
       ELSE /\ whPc' = [whPc EXCEPT ![h] = "done"]
            /\ whResult' = [whResult EXCEPT ![h] = "None"]
    /\ UNCHANGED << webhook_data, whFn, pull_request, pull_requests, whCount >>
    /\ WebhookUnchanged

\* pull_request_service.py 46-85, 126-146, 187-205: the pull request query
\* and what follows it up to the commit.  process_pr_updated and
\* process_pr_closed hand a missing pull request to process_pr_opened, which
\* starts with the repository query again.
WhQueryPullRequest(h) ==
    /\ whPc[h] = "pull_request"
    /\ LET found == FirstRow(pull_requests, webhook_data[h].repository,
                             webhook_data[h].number) IN
       IF found = 0 /\ whFn[h] # "process_pr_opened"
       THEN /\ whFn' = [whFn EXCEPT ![h] = "process_pr_opened"]
            /\ whPc' = [whPc EXCEPT ![h] = "repository"]
            /\ UNCHANGED pull_request
       ELSE /\ pull_request' = [pull_request EXCEPT ![h] =
                                   IF found = 0 THEN -1 ELSE found]
            /\ whPc' = [whPc EXCEPT ![h] = "commit"]
            /\ UNCHANGED whFn
    /\ UNCHANGED << webhook_data, whResult, pull_requests, whCount >>
    /\ WebhookUnchanged

\* pull_request_service.py 87-95, 148-156, 207-212: db.commit() writes the
\* new row or the changed state, db.refresh reads the row back and the
\* method returns it; an INSERT the constraint refuses raises, and
\* handle_pull_request_event catches the error (api/webhooks.py 137-143).
WhCommit(h) ==
    /\ whPc[h] = "commit"
    /\ LET data == webhook_data[h]
           new == [repository_id |-> data.repository,
                   pr_number |-> data.number,
                   state |-> StateWritten(whFn[h], data)] IN
       IF pull_request[h] = -1
       THEN IF uq_repo_pr_number(pull_requests, new)
            THEN /\ whResult' = [whResult EXCEPT ![h] = "IntegrityError"]
                 /\ UNCHANGED pull_requests
            ELSE /\ pull_requests' = Append(pull_requests, new)
                 /\ whResult' = [whResult EXCEPT ![h] = new.state]
       ELSE /\ pull_requests' = [pull_requests EXCEPT
                                    ![pull_request[h]].state = new.state]
            /\ whResult' = [whResult EXCEPT ![h] = new.state]
    /\ whPc' = [whPc EXCEPT ![h] = "done"]
    /\ UNCHANGED << webhook_data, whFn, pull_request, whCount >>
    /\ WebhookUnchanged

\* api/webhooks.py 110-143: the response is sent and the request ends.
WhRespond(h) ==
    /\ whPc[h] = "done"
    /\ whPc' = [whPc EXCEPT ![h] = "idle"]
    /\ webhook_data' = [webhook_data EXCEPT ![h] = NoEvent]
    /\ whFn' = [whFn EXCEPT ![h] = "none"]
    /\ pull_request' = [pull_request EXCEPT ![h] = 0]
    /\ whResult' = [whResult EXCEPT ![h] = "none"]
    /\ UNCHANGED << pull_requests, whCount >>
    /\ WebhookUnchanged

NextWebhook ==
    \/ \E h \in Handlers : WhReceive(h)
    \/ \E h \in Handlers : WhQueryRepository(h)
    \/ \E h \in Handlers : WhQueryPullRequest(h)
    \/ \E h \in Handlers : WhCommit(h)
    \/ \E h \in Handlers : WhRespond(h)

SpecWebhook == InitWebhook /\ [][NextWebhook]_vars

\* C29: when a "closed" event for a monitored repository has been processed,
\* the PullRequest the method stored and read back has state "merged" if the
\* payload's merged_at is set and "closed" otherwise, whether the row existed
\* before the event or was created by it.
C29_ClosedEventState ==
    \A h \in Handlers :
       (/\ whPc[h] = "done"
        /\ webhook_data[h].action = "closed"
        /\ webhook_data[h].repository \in StoredRepos
        /\ whResult[h] # "IntegrityError") =>
           whResult[h] = IF webhook_data[h].merged_at THEN "merged" ELSE "closed"

\* C30: whatever events were processed and however the requests interleaved,
\* the table holds at most one PullRequest row for a (repository_id,
\* pr_number), and no row for a repository that is not stored.
C30_OneRowPerPullRequest ==
    /\ \A i, j \in 1..Len(pull_requests) :
          SameKey(pull_requests[i], pull_requests[j].repository_id,
                  pull_requests[j].pr_number) => i = j
    /\ \A i \in 1..Len(pull_requests) :
          pull_requests[i].repository_id \in StoredRepos

\* Two requests for one pull request both found no row and both inserted:
\* one row is stored and the other request was refused by the constraint;
\* an event for a repository that is not stored has been processed too.
C30_Witness ==
    /\ \E h \in Handlers :
          /\ whResult[h] = "IntegrityError"
          /\ FirstRow(pull_requests, webhook_data[h].repository,
                      webhook_data[h].number) # 0
    /\ \E h \in Handlers :
          /\ whResult[h] = "None"
          /\ webhook_data[h].repository \notin StoredRepos

====
